---------------------------- MODULE Spec2Model ----------------------------
(***************************************************************************)
(* The lexing engine (package lexer: Lex, its cursor primitives and the    *)
(* producer/consumer token channel) and the DTDX scanner built on it       *)
(* (package parser: OuterState, NewlineState, updateIndent, ...).          *)
(*                                                                         *)
(* The source text is a sequence of bytes.  A byte is written as a one     *)
(* character string; the byte 0x00 is written "NUL".  A token value is a   *)
(* sequence of such bytes (a slice of the source); the value of an error   *)
(* token is the formatted message, written as a sequence whose literal     *)
(* parts are strings and whose arguments are formatted as the code         *)
(* formats them.                                                           *)
(*                                                                         *)
(* The producer goroutine is modelled in steps that end where the code     *)
(* blocks (a send on the token channel) or where a state function returns  *)
(* or loops.  The send itself is the action Send.                          *)
(***************************************************************************)
EXTENDS Integers, Sequences, FiniteSets, TLC

VARIABLES
    source,      \* Lex.source
    startState,  \* Lex.startState
    start,       \* Lex.start
    position,    \* Lex.position
    atEOF,       \* Lex.atEOF
    State,       \* Lex.State, the scanner's slot: NilState or the indent stack
    tokens,      \* the buffered contents of the channel Lex.tokens
    started,     \* Start was called: Lex.tokens is a channel, not nil
    closed,      \* close(l.tokens) has run
    pc,          \* where the producer goroutine stands
    sending,     \* the token of the send `l.tokens <- tok` in progress, or NoTok
    ui,          \* the locals of the updateIndent call in progress
    cpc,         \* where the consumer stands
    result,      \* what the consumer's last NextToken call returned
    emitted,     \* history: the tokens passed to Emit / Errorf, in order
    received     \* history: the tokens NextToken returned, in order

vars == << source, startState, start, position, atEOF, State, tokens, started,
           closed, pc, sending, ui, cpc, result, emitted, received >>

-----------------------------------------------------------------------------
(* Bounds of the model *)

\* sources over the whole alphabet have at most MaxLen bytes
MaxLen == 3

\* sources over the bytes that decide indentation have at most MaxIndentLen
\* bytes
MaxIndentLen == 6

\* the lines of a source of two lines have at most MaxLead bytes of leading
\* white space
MaxLead == 3

\* the lines of a source of three lines have at most MaxLead3 bytes of
\* leading white space
MaxLead3 == 2

\* the sources the cursor operations are driven over have at most
\* MaxCursorLen bytes
MaxCursorLen == 3

\* a driver of the cursor operations emits at most MaxEmits tokens
MaxEmits == 1

-----------------------------------------------------------------------------
(* Bytes and runes *)

sp  == " "
tab == "\t"
nl  == "\n"
NUL == "NUL"
dq  == "\""
sq  == "'"

\* const EOFRune rune = 0: the same value as the rune of a NUL byte
EOFRune == NUL

\* utf8.RuneError, what decoding an invalid byte yields
RuneError == "U+FFFD"

\* the two bytes of a two-byte UTF-8 encoding (of the letter U+00E9)
leadByte == "0xC3"
contByte == "0xA9"
eAcute   == "U+00E9"

\* The bytes sources are built from: one representative for every branch
\* of the scanner.
Alphabet == { sp, tab, nl, "=", dq, sq, ".", "#", "a", "A", "1", NUL }

Strings(alphabet, n) == UNION { [1..k -> alphabet] : k \in 0..n }

\* The bytes that decide indentation: white space, the line end and one
\* byte of content.
IndentAlphabet == { sp, tab, nl, "a" }

\* The leading white space of a line: runs of spaces and tabs.
Leads(n) == Strings({ sp, tab }, n)

\* Sources of two lines, each one some leading white space and one byte of
\* content: an identifier or a comment.
TwoLines ==
    { w1 \o << c1, nl >> \o w2 \o << c2 >> :
          w1 \in Leads(MaxLead), w2 \in Leads(MaxLead),
          c1 \in { "a", "#" }, c2 \in { "a", "#" } }

\* Sources of three lines, each one some leading white space and an
\* identifier.
ThreeLines ==
    { w1 \o << "a", nl >> \o w2 \o << "a", nl >> \o w3 \o << "a" >> :
          w1 \in Leads(MaxLead3), w2 \in Leads(MaxLead3),
          w3 \in Leads(MaxLead3) }

\* Sources that begin with an empty quoted literal.
AfterLiteral == { << dq, dq >> \o s : s \in Strings(Alphabet, MaxLen) }

Sources ==
    Strings(Alphabet, MaxLen) \cup Strings(IndentAlphabet, MaxIndentLen)
        \cup TwoLines \cup ThreeLines \cup AfterLiteral

\* utf8.DecodeRuneInString(str), str not empty: the rune and its width
DecodeRuneInString(str) ==
    IF str[1] = leadByte
    THEN IF Len(str) >= 2 /\ str[2] = contByte
         THEN [r |-> eAcute, s |-> 2]
         ELSE [r |-> RuneError, s |-> 1]
    ELSE IF str[1] = contByte
         THEN [r |-> RuneError, s |-> 1]
         ELSE [r |-> str[1], s |-> 1]

\* utf8.DecodeLastRuneInString(str), str not empty
DecodeLastRuneInString(str) ==
    LET n == Len(str) IN
    IF str[n] = contByte
    THEN IF n >= 2 /\ str[n-1] = leadByte
         THEN [r |-> eAcute, s |-> 2]
         ELSE [r |-> RuneError, s |-> 1]
    ELSE IF str[n] = leadByte
         THEN [r |-> RuneError, s |-> 1]
         ELSE [r |-> str[n], s |-> 1]

\* unicode.IsLetter and unicode.IsDigit on the runes of the model
IsLetter(r) == r \in { "a", "A", eAcute }
IsDigit(r)  == r \in { "1" }

\* const uppercase = "ABCDEFGHIJKLMNOPQRSTUVWXYZ", as far as the model's
\* alphabet goes
uppercase == { "A" }

\* strings.HasPrefix(s, prefix)
HasPrefix(s, prefix) ==
    /\ Len(s) >= Len(prefix)
    /\ SubSeq(s, 1, Len(prefix)) = prefix


-----------------------------------------------------------------------------
(* Token types: internal/parser/scanner.go and the lexer's ErrorTok *)

ErrorTok        == -1
indentTok       == 1
dedentTok       == 2
equalsTok       == 3
openTok         == 4
closeTok        == 5
separatorTok    == 6
multiplicityTok == 7
identTok        == 8
quoteTok        == 9
referenceTok    == 10
directiveTok    == 11
commentTok      == 12
eofTok          == 13

\* type Token struct { Type TokenType; Value string }
Token(t, v) == [Type |-> t, Value |-> v]

\* no token: no send in progress, no token returned yet
NoTok == [Type |-> 0, Value |-> << >>]

\* the nil *Token that NextToken returns at the end of the stream
NilTok == [Type |-> 0, Value |-> << "nil" >>]

\* the zero value of the slot Lex.State (no indent stack yet)
NilState == << >>

-----------------------------------------------------------------------------
(* The cursor primitives of Lex, as functions of the cursor                *)
(*   c = [start, position, atEOF, panic]                                   *)
(* c.panic tells that a panic was raised; a panicked cursor stays as it    *)
(* is, since the code after a panic does not run.                          *)

Cursor(s, p, e) == [start |-> s, position |-> p, atEOF |-> e, panic |-> FALSE]

\* func (l *Lex) Current() string
Current(c) == SubSeq(source, c.start + 1, c.position)

\* l.source[l.position:]
Rest(c) == SubSeq(source, c.position + 1, Len(source))

\* a slip: Ignore sets start to the beginning of the source
IgnoreResets(c) == IF c.panic THEN c ELSE [c EXCEPT !.start = 0]

\* func (l *Lex) Ignore()
Ignore(c) == IF c.panic THEN c ELSE [c EXCEPT !.start = c.position]

\* func (l *Lex) Next() rune: the cursor after the call
LexNext(c) ==
    IF c.panic THEN c
    ELSE IF Len(Rest(c)) = 0
         THEN IF c.atEOF
              THEN [c EXCEPT !.panic = TRUE]
              ELSE [c EXCEPT !.atEOF = TRUE]
         ELSE [c EXCEPT !.position = @ + DecodeRuneInString(Rest(c)).s]

\* func (l *Lex) Next() rune: the rune returned
NextRune(c) ==
    IF Len(Rest(c)) = 0 THEN EOFRune ELSE DecodeRuneInString(Rest(c)).r

\* a slip: the pending text is not looked at, and the position moves back
\* by one byte also when nothing is pending
BackupPastStart(c) ==
    IF c.panic THEN c
    ELSE IF c.atEOF
         THEN [c EXCEPT !.atEOF = FALSE]
         ELSE [c EXCEPT !.position = @ - 1]

\* a slip: at the end of input the position moves back like anywhere
\* else, and the flag stays
BackupKeepsAtEOF(c) ==
    IF c.panic THEN c
    ELSE IF Len(Current(c)) > 0
         THEN [c EXCEPT !.position = @ - DecodeLastRuneInString(Current(c)).s]
         ELSE c

\* func (l *Lex) Backup()
Backup(c) ==
    IF c.panic THEN c
    ELSE IF c.atEOF
         THEN [c EXCEPT !.atEOF = FALSE]
         ELSE IF Len(Current(c)) > 0
              THEN [c EXCEPT !.position = @ - DecodeLastRuneInString(Current(c)).s]
              ELSE c

\* func (l *Lex) Peek() rune: the cursor after the call (the rune is NextRune)
Peek(c) == Backup(LexNext(c))

\* func (l *Lex) Accept(chars string) bool: the cursor after the call
Accept(c, chars) ==
    IF NextRune(c) \in chars THEN LexNext(c) ELSE Backup(LexNext(c))

\* the loop of AcceptRun: for strings.ContainsRune(chars, l.Next()) {}
RECURSIVE AcceptRunLoop(_, _)
AcceptRunLoop(c, chars) ==
    LET n == LexNext(c) IN
    IF n.panic THEN n
    ELSE IF NextRune(c) \in chars THEN AcceptRunLoop(n, chars) ELSE n

\* func (l *Lex) AcceptRun(chars string)
AcceptRun(c, chars) == Backup(AcceptRunLoop(c, chars))

\* the loop of AcceptTo: for !strings.ContainsRune(chars, l.Next()) {}
RECURSIVE AcceptToLoop(_, _)
AcceptToLoop(c, chars) ==
    LET n == LexNext(c) IN
    IF n.panic THEN n
    ELSE IF NextRune(c) \notin chars THEN AcceptToLoop(n, chars) ELSE n

\* func (l *Lex) AcceptTo(chars string): chars = chars + "\n\x00"
AcceptTo(c, chars) == Backup(AcceptToLoop(c, chars \cup { nl, NUL }))

\* func (l *Lex) LookingAt(prefix string) bool
LookingAt(c, prefix) == HasPrefix(Rest(c), prefix)

\* a slip: the value is the text still to be read, not the pending text
EmitTokRest(c, t) == Token(t, Rest(c))

\* the token Emit(t) builds: Token{Type: t, Value: l.Current()}
EmitTok(c, t) == Token(t, Current(c))

-----------------------------------------------------------------------------
(* Formatting *)

digits == << "0", "1", "2", "3", "4", "5", "6", "7", "8", "9" >>

\* fmt's %d of a non-negative int: its decimal digits
RECURSIVE Itoa(_)
Itoa(n) ==
    IF n < 10 THEN << digits[n + 1] >>
    ELSE Itoa(n \div 10) \o << digits[(n % 10) + 1] >>

\* fmt's %#U of a rune: U+ and its code point in four hexadecimal digits,
\* then, when strconv.IsPrint holds of the rune, a space and the character
\* between single quotes
SharpU(r) ==
    CASE r = NUL       -> "U+0000"
      [] r = tab       -> "U+0009"
      [] r = nl        -> "U+000A"
      [] r = sp        -> "U+0020 ' '"
      [] r = dq        -> "U+0022 '\"'"
      [] r = "#"       -> "U+0023 '#'"
      [] r = "&"       -> "U+0026 '&'"
      [] r = sq        -> "U+0027 '''"
      [] r = "("       -> "U+0028 '('"
      [] r = ")"       -> "U+0029 ')'"
      [] r = "*"       -> "U+002A '*'"
      [] r = "+"       -> "U+002B '+'"
      [] r = ","       -> "U+002C ','"
      [] r = "-"       -> "U+002D '-'"
      [] r = "."       -> "U+002E '.'"
      [] r = "1"       -> "U+0031 '1'"
      [] r = ":"       -> "U+003A ':'"
      [] r = "="       -> "U+003D '='"
      [] r = "?"       -> "U+003F '?'"
      [] r = "A"       -> "U+0041 'A'"
      [] r = "_"       -> "U+005F '_'"
      [] r = "a"       -> "U+0061 'a'"
      [] r = "|"       -> "U+007C '|'"
      [] r = eAcute    -> "U+00E9 'é'"
      [] r = RuneError -> "U+FFFD '�'"

\* func measure(s string) int: the width, or -1 for the panic
\* "Bad rune found in indent"
RECURSIVE measureFrom(_, _)
measureFrom(s, width) ==
    IF Len(s) = 0 THEN width
    ELSE LET d == DecodeRuneInString(s) IN
         CASE d.r = sp  -> measureFrom(SubSeq(s, d.s + 1, Len(s)), width + 1)
           [] d.r = tab -> measureFrom(SubSeq(s, d.s + 1, Len(s)),
                                       width + (4 - (width % 4)))
           [] OTHER     -> -1

\* a slip: a tab always adds four columns
RECURSIVE measureTabAddsFour(_)
measureTabAddsFour(s) ==
    IF Len(s) = 0 THEN 0
    ELSE IF s[Len(s)] \notin { sp, tab } THEN -1
    ELSE LET w == measureTabAddsFour(SubSeq(s, 1, Len(s) - 1))
         IN  IF w = -1 THEN -1 ELSE IF s[Len(s)] = sp THEN w + 1 ELSE w + 4

measure(s) == measureFrom(s, 0)

-----------------------------------------------------------------------------
(* The token channel: l.tokens = make(chan Token, 2) *)

\* the capacity of the channel
ChanCap == 2

\* a slip: the bound of the buffer is off by one
ChanCanSendOneMore(q) == Len(q) <= ChanCap

\* a slip: a channel that never makes the sender wait
ChanCanSendAlways(q) == TRUE

\* a send `l.tokens <- tok` can complete: the buffer has a free slot
ChanCanSend(q) == Len(q) < ChanCap

\* a slip: the buffer as a stack
ChanSendFront(q, tok) == << tok >> \o q

\* the buffer after a completed send
ChanSend(q, tok) == Append(q, tok)

\* a slip: a receive that does not wait (a select with a default case)
ChanCanRecvNoWait(q, isClosed) == TRUE

\* a receive `tok, ok := <-l.tokens` can complete: a token is buffered, or
\* the channel is closed
ChanCanRecv(q, isClosed) == Len(q) > 0 \/ isClosed

\* the ok of a completed receive: a token was buffered
ChanRecvOk(q) == Len(q) > 0

-----------------------------------------------------------------------------
(* The state of the program after New(src, startState) *)

\* no updateIndent call in progress
NoFrame == [at |-> "none", caller |-> "none", size |-> 0, peek |-> 0,
            indents |-> << >>]

\* the state functions a session starts in (the scanner's tests use both)
StartStates == { "Newline", "Outer" }

Init ==
    /\ source \in Sources
    /\ startState \in StartStates
    /\ start = 0
    /\ position = 0
    /\ atEOF = FALSE
    /\ State = NilState
    /\ tokens = << >>
    /\ started = FALSE
    /\ closed = FALSE
    /\ pc = "new"
    /\ sending = NoTok
    /\ ui = NoFrame
    /\ cpc = "ready"
    /\ result = NoTok
    /\ emitted = << >>
    /\ received = << >>

\* the cursor of the engine
Cur == Cursor(start, position, atEOF)

\* the producer goroutine can take a step of its own: it is running and not
\* inside a send
Running(label) == started /\ pc = label /\ sending = NoTok

\* The end of a producer step: the cursor is stored, the producer goes on at
\* `label`, and `tok` (if not NoTok) is the token it starts to send.  A
\* panic raised during the step unwinds the goroutine instead.
Step(c, label, tok) ==
    /\ start' = c.start
    /\ position' = c.position
    /\ atEOF' = c.atEOF
    /\ IF c.panic
       THEN /\ pc' = "panic"
            /\ sending' = NoTok
            /\ emitted' = emitted
       ELSE /\ pc' = label
            /\ sending' = tok
            /\ emitted' = IF tok = NoTok THEN emitted ELSE Append(emitted, tok)

\* what no step of the producer's state functions changes
otherVars == << source, startState, tokens, started, closed, cpc, result,
               received >>

-----------------------------------------------------------------------------
(* The engine *)

\* func (l *Lex) Start() *Lex: makes the channel and starts the goroutine,
\* which runs `state := l.startState`
Start ==
    /\ ~started
    /\ cpc = "ready"
    /\ started' = TRUE
    /\ pc' = startState
    /\ UNCHANGED << source, startState, start, position, atEOF, State, tokens,
                    closed, sending, ui, cpc, result, emitted, received >>

\* the send `l.tokens <- tok` of Emit and Errorf completes
Send ==
    /\ started
    /\ sending # NoTok
    /\ ChanCanSend(tokens)
    /\ tokens' = ChanSend(tokens, sending)
    /\ sending' = NoTok
    /\ UNCHANGED << source, startState, start, position, atEOF, State, started,
                    closed, pc, ui, cpc, result, emitted, received >>

\* `defer close(l.tokens)`: runs when the loop `for state != nil` has ended,
\* and also while a panic unwinds the goroutine (after which the process
\* dies)
Close ==
    /\ started
    /\ pc \in { "exit", "panic" }
    /\ sending = NoTok
    /\ closed' = TRUE
    /\ pc' = IF pc = "exit" THEN "closed" ELSE "crashed"
    /\ UNCHANGED << source, startState, start, position, atEOF, State, tokens,
                    started, sending, ui, cpc, result, emitted, received >>

\* a slip: NextToken drops the pending text of the cursor
NextTokenIgnores ==
    /\ started
    /\ cpc = "ready"
    /\ ChanCanRecv(tokens, closed)
    /\ IF ChanRecvOk(tokens)
       THEN /\ result' = Head(tokens)
            /\ received' = Append(received, Head(tokens))
            /\ tokens' = Tail(tokens)
       ELSE /\ result' = NilTok
            /\ received' = received
            /\ tokens' = tokens
    /\ start' = position
    /\ UNCHANGED << source, startState, position, atEOF, State, started,
                    closed, pc, sending, ui, cpc, emitted >>

\* func (l *Lex) NextToken() *Token, on a started engine: blocks until a
\* token is buffered or the channel is closed
NextToken ==
    /\ started
    /\ cpc = "ready"
    /\ ChanCanRecv(tokens, closed)
    /\ IF ChanRecvOk(tokens)
       THEN /\ result' = Head(tokens)
            /\ received' = Append(received, Head(tokens))
            /\ tokens' = Tail(tokens)
       ELSE /\ result' = NilTok
            /\ received' = received
            /\ tokens' = tokens
    /\ UNCHANGED << source, startState, start, position, atEOF, State, started,
                    closed, pc, sending, ui, cpc, emitted >>

\* a slip: a receive from the nil channel is taken for a receive from a
\* closed one, and NextToken returns nil
NextTokenNotStartedReturnsNil ==
    /\ ~started
    /\ cpc = "ready"
    /\ result' = NilTok
    /\ UNCHANGED << source, startState, start, position, atEOF, State, tokens,
                    started, closed, pc, sending, ui, cpc, emitted, received >>

\* NextToken on an engine that was never started: l.tokens is nil, and a
\* receive from a nil channel blocks forever
NextTokenNotStarted ==
    /\ ~started
    /\ cpc = "ready"
    /\ cpc' = "blocked"
    /\ UNCHANGED << source, startState, start, position, atEOF, State, tokens,
                    started, closed, pc, sending, ui, result, emitted, received >>

-----------------------------------------------------------------------------
(* The DTDX scanner: internal/parser/scanner.go *)

\* a slip: the error token carries the pending text, not the message
ErrorfTokPendingText(msg) == Token(ErrorTok, Current(Cur))

\* the token Errorf builds: Token{ErrorTok, fmt.Sprintf(format, args...)}
ErrorfTok(msg) == Token(ErrorTok, msg)

\* a slip: Errorf returns a state to go on with
ErrorfReturnOuter == "Outer"

\* what Errorf returns once its send is done: nil, which ends the loop of
\* the goroutine
ErrorfReturn == "exit"

\* the token type of the single character tokens of OuterState
SingleCharTok(r) ==
    CASE r = "="               -> equalsTok
      [] r = "("               -> openTok
      [] r = ")"               -> closeTok
      [] r \in { ",", "|", "&" } -> separatorTok
      [] r \in { "*", "+", "?" } -> multiplicityTok

SingleChars == { "=", "(", ")", ",", "|", "&", "*", "+", "?" }

\* a slip: the case of an equal width is missing, and one is pushed again
updateIndentCaseNoEqual(size, peek) ==
    IF size >= peek THEN "indent" ELSE "dedent"

\* a slip: a greater width is taken for an equal one, and nothing is pushed
updateIndentCaseNoIndent(size, peek) ==
    IF size >= peek THEN "same" ELSE "dedent"

\* a slip: an equal width is taken for a smaller one, and the top is popped
updateIndentCasePopsEqual(size, peek) ==
    IF size > peek THEN "indent" ELSE "dedent"

\* the switch of updateIndent on the measured size and the top of the stack
updateIndentCase(size, peek) ==
    IF size = peek THEN "same"
    ELSE IF size > peek THEN "indent" ELSE "dedent"

\* updateIndent returns `ret` to its caller.  NewlineState returns it as its
\* own next state; OuterState (at the end of input) drops it, emits eofTok
\* and returns nil.
updateIndentReturn(c, caller, ret) ==
    IF caller = "Newline"
    THEN Step(c, ret, NoTok)
    ELSE Step(Ignore(c), "exit", EmitTok(c, eofTok))

\* a slip: a greater width is pushed and no indentTok is emitted for it
updateIndentSilentPush(c, caller) ==
    LET indents == IF State = NilState THEN << 0 >> ELSE State
        size    == measure(Current(c))
        peek    == indents[Len(indents)]
        frame   == [at |-> "none", caller |-> caller, size |-> size,
                    peek |-> peek, indents |-> indents]
    IN  /\ State' = indents
        /\ IF size = -1
           THEN /\ ui' = NoFrame
                /\ Step([c EXCEPT !.panic = TRUE], "panic", NoTok)
           ELSE CASE updateIndentCase(size, peek) = "same" ->
                       /\ ui' = NoFrame
                       /\ updateIndentReturn(Ignore(c), caller, "Outer")
                  [] updateIndentCase(size, peek) = "indent" ->
                       /\ ui' = [frame EXCEPT !.at = "push"]
                       /\ Step(Ignore(c), "updateIndent", NoTok)
                  [] updateIndentCase(size, peek) = "dedent" ->
                       /\ ui' = [frame EXCEPT !.at = "pop"]
                       /\ Step(Ignore(c), "updateIndent", EmitTok(c, dedentTok))

\* func updateIndent(l *lexer.Lex) lexer.StateFunc, from its start to its
\* first send or its return
updateIndent(c, caller) ==
    LET indents == IF State = NilState THEN << 0 >> ELSE State
        size    == measure(Current(c))
        peek    == indents[Len(indents)]
        frame   == [at |-> "none", caller |-> caller, size |-> size,
                    peek |-> peek, indents |-> indents]
    IN  /\ State' = indents
        /\ IF size = -1
           THEN /\ ui' = NoFrame
                /\ Step([c EXCEPT !.panic = TRUE], "panic", NoTok)
           ELSE CASE updateIndentCase(size, peek) = "same" ->
                       /\ ui' = NoFrame
                       /\ updateIndentReturn(Ignore(c), caller, "Outer")
                  [] updateIndentCase(size, peek) = "indent" ->
                       /\ ui' = [frame EXCEPT !.at = "push"]
                       /\ Step(Ignore(c), "updateIndent", EmitTok(c, indentTok))
                  [] updateIndentCase(size, peek) = "dedent" ->
                       /\ ui' = [frame EXCEPT !.at = "pop"]
                       /\ Step(Ignore(c), "updateIndent", EmitTok(c, dedentTok))

\* a slip: the test after the loop is turned around, and never holds
inconsistentDedentNever(peek, size) == peek > size

\* the test after the dedent loop of updateIndent: if peek < size
inconsistentDedent(peek, size) == peek < size

\* updateIndent, from the completion of one of its sends to its next send
\* or its return
updateIndentResume ==
    /\ Running("updateIndent")
    /\ UNCHANGED otherVars
    /\ CASE ui.at = "push" ->
              \* l.State = append(indents, size); return OuterState
              /\ State' = Append(ui.indents, ui.size)
              /\ ui' = NoFrame
              /\ updateIndentReturn(Cur, ui.caller, "Outer")
         [] ui.at = "pop" ->
              \* peek, indents = indents[len(indents)-2], indents[:len(indents)-1]
              LET n == Len(ui.indents) IN
              IF n < 2
              THEN /\ State' = State
                   /\ ui' = NoFrame
                   /\ Step([Cur EXCEPT !.panic = TRUE], "panic", NoTok)
              ELSE LET peek    == ui.indents[n - 1]
                       indents == SubSeq(ui.indents, 1, n - 1)
                   IN  IF updateIndentCase(ui.size, peek) = "dedent"
                       THEN /\ State' = State
                            /\ ui' = [ui EXCEPT !.peek = peek, !.indents = indents]
                            /\ Step(Ignore(Cur), "updateIndent",
                                    EmitTok(Cur, dedentTok))
                       ELSE /\ State' = indents
                            /\ IF inconsistentDedent(peek, ui.size)
                               THEN /\ ui' = [ui EXCEPT !.at = "err", !.peek = peek,
                                                       !.indents = indents]
                                    /\ Step(Cur, "updateIndent",
                                            ErrorfTok(<< "Inconsistent dedent. Expecting " >>
                                                      \o Itoa(peek)
                                                      \o << " but found " >>
                                                      \o Itoa(ui.size) \o << "." >>))
                               ELSE /\ ui' = NoFrame
                                    /\ updateIndentReturn(Cur, ui.caller, "Outer")
         [] ui.at = "err" ->
              \* return l.Errorf(...)
              /\ State' = State
              /\ ui' = NoFrame
              /\ updateIndentReturn(Cur, ui.caller, ErrorfReturn)

\* func OuterState(l *lexer.Lex) lexer.StateFunc: one turn of its loop
OuterState ==
    /\ Running("Outer")
    /\ UNCHANGED otherVars
    /\ LET r == NextRune(Cur)
           n == LexNext(Cur)
       IN  IF n.panic
           THEN Step(n, "panic", NoTok) /\ UNCHANGED << State, ui >>
           ELSE IF r = EOFRune
           THEN updateIndent(n, "Outer")
           ELSE /\ UNCHANGED << State, ui >>
                /\ CASE r \in { sp, tab } -> Step(Ignore(n), "Outer", NoTok)
                     [] r = nl -> Step(n, "Newline", NoTok)
                     [] r \in SingleChars ->
                          Step(Ignore(n), "Outer", EmitTok(n, SingleCharTok(r)))
                     [] r = dq -> Step(n, "DoubleQuote", NoTok)
                     [] r = sq -> Step(n, "SingleQuote", NoTok)
                     [] r = "." -> Step(n, "Reference", NoTok)
                     [] r = "#" ->
                          IF NextRune(n) \in uppercase
                          THEN Step(Peek(n), "Directive", NoTok)
                          ELSE Step(Peek(n), "Comment", NoTok)
                     [] OTHER ->
                          IF IsLetter(r) \/ r = "_" \/ r = ":"
                          THEN Step(n, "Identifier", NoTok)
                          ELSE Step(n, ErrorfReturn,
                                    ErrorfTok(<< "Unexpected unicode character (",
                                                 SharpU(r),
                                                 ") in outer context." >>))

\* func NewlineState(l *lexer.Lex) lexer.StateFunc
NewlineState ==
    /\ Running("Newline")
    /\ UNCHANGED otherVars
    /\ LET c == AcceptRun(Ignore(Cur), { tab, sp })
       IN  IF LookingAt(c, << nl >>)
           THEN Step(LexNext(c), "Newline", NoTok) /\ UNCHANGED << State, ui >>
           ELSE updateIndent(c, "Newline")

\* a slip: the opening delimiter is not dropped before the literal is read
quoteHelperKeepsDelimiter(quote) ==
    LET c == AcceptTo(Cur, { quote })
    IN  IF LookingAt(c, << quote >>)
        THEN Step(Ignore(c), "quoteHelper", EmitTok(c, quoteTok))
        ELSE Step(c, ErrorfReturn,
                  ErrorfTok(<< "Runaway quote: " >> \o Current(c)))

\* a slip: a literal that is not closed is emitted as a literal
quoteHelperNoRunaway(quote) ==
    LET c == AcceptTo(Ignore(Cur), { quote })
    IN  Step(Ignore(c), "quoteHelper", EmitTok(c, quoteTok))

\* func quoteHelper(l *lexer.Lex, quote string) lexer.StateFunc, up to its
\* send
quoteHelper(quote) ==
    LET c == AcceptTo(Ignore(Cur), { quote })
    IN  IF LookingAt(c, << quote >>)
        THEN Step(Ignore(c), "quoteHelper", EmitTok(c, quoteTok))
        ELSE Step(c, ErrorfReturn,
                  ErrorfTok(<< "Runaway quote: " >> \o Current(c)))

\* quoteHelper after l.Emit(quoteTok): l.Next(); return OuterState
quoteHelperResume ==
    /\ Running("quoteHelper")
    /\ UNCHANGED otherVars
    /\ UNCHANGED << State, ui >>
    /\ Step(LexNext(Cur), "Outer", NoTok)

\* func DoubleQuoteState(l *lexer.Lex) lexer.StateFunc
DoubleQuoteState ==
    /\ Running("DoubleQuote")
    /\ UNCHANGED otherVars
    /\ UNCHANGED << State, ui >>
    /\ quoteHelper(dq)

\* func SingleQuoteState(l *lexer.Lex) lexer.StateFunc
SingleQuoteState ==
    /\ Running("SingleQuote")
    /\ UNCHANGED otherVars
    /\ UNCHANGED << State, ui >>
    /\ quoteHelper(sq)

\* func DirectiveState(l *lexer.Lex) lexer.StateFunc
DirectiveState ==
    /\ Running("Directive")
    /\ UNCHANGED otherVars
    /\ UNCHANGED << State, ui >>
    /\ LET c == AcceptRun(Cur, uppercase)
       IN  Step(Ignore(c), "Outer", EmitTok(c, directiveTok))

\* func CommentState(l *lexer.Lex) lexer.StateFunc
CommentState ==
    /\ Running("Comment")
    /\ UNCHANGED otherVars
    /\ UNCHANGED << State, ui >>
    /\ LET c == AcceptTo(Cur, { })
       IN  Step(Ignore(c), "Outer", EmitTok(c, commentTok))

\* func isAlphaNumeric(r rune) bool
isAlphaNumeric(r) == r = "_" \/ IsLetter(r) \/ IsDigit(r)

\* the loop of IdentifierState: Next until a rune is not alphanumeric, then
\* Backup
RECURSIVE IdentifierLoop(_)
IdentifierLoop(c) ==
    LET n == LexNext(c) IN
    IF n.panic THEN n
    ELSE IF isAlphaNumeric(NextRune(c)) THEN IdentifierLoop(n) ELSE Backup(n)

\* func IdentifierState(l *lexer.Lex) lexer.StateFunc
IdentifierState ==
    /\ Running("Identifier")
    /\ UNCHANGED otherVars
    /\ UNCHANGED << State, ui >>
    /\ LET c == IdentifierLoop(Cur)
       IN  Step(Ignore(c), "Outer", EmitTok(c, identTok))

\* func ReferenceState(l *lexer.Lex) lexer.StateFunc
ReferenceState ==
    /\ Running("Reference")
    /\ UNCHANGED otherVars
    /\ UNCHANGED << State, ui >>
    /\ LET c == AcceptRun(Cur, { "." })
       IN  IF Current(c) = << ".", ".", "." >>
           THEN Step(Ignore(c), "Outer", EmitTok(c, referenceTok))
           ELSE Step(c, ErrorfReturn,
                     ErrorfTok(<< "Malformed reference ellipsis: " >> \o Current(c)))

-----------------------------------------------------------------------------
(* The program *)

Next ==
    \/ Start
    \/ NextToken
    \/ NextTokenNotStarted
    \/ Send
    \/ Close
    \/ OuterState
    \/ NewlineState
    \/ updateIndentResume
    \/ DoubleQuoteState
    \/ SingleQuoteState
    \/ quoteHelperResume
    \/ DirectiveState
    \/ CommentState
    \/ IdentifierState
    \/ ReferenceState

Spec == Init /\ [][Next]_vars

-----------------------------------------------------------------------------
(* A driver of the cursor operations: a state function that calls the      *)
(* operations of Lex in any order, as the tests of the engine do.  pc      *)
(* names the operation called last.                                        *)

\* the bytes of its sources: a letter, the line end, the NUL byte and the
\* two bytes of a two-byte rune
CursorAlphabet == { "a", nl, NUL, leadByte, contByte }

CursorSources == Strings(CursorAlphabet, MaxCursorLen)

\* the sets of runes its calls of Accept, AcceptRun and AcceptTo name
CharSets == { { "a" }, { "a", eAcute } }

OpLabels == { "Ops", "Next", "Backup", "Peek", "Accept", "AcceptRun",
              "AcceptTo", "Ignore", "Emit" }

CursorInit ==
    /\ source \in CursorSources
    /\ startState = "Ops"
    /\ start = 0
    /\ position = 0
    /\ atEOF = FALSE
    /\ State = NilState
    /\ tokens = << >>
    /\ started = FALSE
    /\ closed = FALSE
    /\ pc = "new"
    /\ sending = NoTok
    /\ ui = NoFrame
    /\ cpc = "ready"
    /\ result = NoTok
    /\ emitted = << >>
    /\ received = << >>

\* the driver can call an operation: it is running and not inside a send
Driving == started /\ pc \in OpLabels /\ sending = NoTok

\* what a call of a cursor operation leaves alone
driverFrame == << source, startState, tokens, started, closed, cpc, result,
                 received, State, ui >>

\* r := l.Next()
DoNext == Driving /\ Step(LexNext(Cur), "Next", NoTok) /\ UNCHANGED driverFrame

\* l.Backup()
DoBackup == Driving /\ Step(Backup(Cur), "Backup", NoTok) /\ UNCHANGED driverFrame

\* r := l.Peek()
DoPeek == Driving /\ Step(Peek(Cur), "Peek", NoTok) /\ UNCHANGED driverFrame

\* l.Accept(chars)
DoAccept ==
    /\ Driving
    /\ \E chars \in CharSets : Step(Accept(Cur, chars), "Accept", NoTok)
    /\ UNCHANGED driverFrame

\* l.AcceptRun(chars)
DoAcceptRun ==
    /\ Driving
    /\ \E chars \in CharSets : Step(AcceptRun(Cur, chars), "AcceptRun", NoTok)
    /\ UNCHANGED driverFrame

\* l.AcceptTo(chars)
DoAcceptTo ==
    /\ Driving
    /\ \E chars \in CharSets : Step(AcceptTo(Cur, chars), "AcceptTo", NoTok)
    /\ UNCHANGED driverFrame

\* l.Ignore()
DoIgnore == Driving /\ Step(Ignore(Cur), "Ignore", NoTok) /\ UNCHANGED driverFrame

\* l.Emit(t), up to its send
DoEmit ==
    /\ Driving
    /\ Len(emitted) < MaxEmits
    /\ Step(Ignore(Cur), "Emit", EmitTok(Cur, identTok))
    /\ UNCHANGED driverFrame

\* return l.Errorf(format, args...), up to its send
DoErrorf ==
    /\ Driving
    /\ Step(Cur, ErrorfReturn, ErrorfTok(<< "unexpected token" >>))
    /\ UNCHANGED driverFrame

\* return nil
DoReturn == Driving /\ Step(Cur, "exit", NoTok) /\ UNCHANGED driverFrame

CursorNext ==
    \/ Start
    \/ Send
    \/ Close
    \/ NextToken
    \/ DoNext
    \/ DoBackup
    \/ DoPeek
    \/ DoAccept
    \/ DoAcceptRun
    \/ DoAcceptTo
    \/ DoIgnore
    \/ DoEmit
    \/ DoErrorf
    \/ DoReturn

CursorSpec == CursorInit /\ [][CursorNext]_vars

-----------------------------------------------------------------------------
(* Notions the properties are stated with *)

Last(q) == q[Len(q)]

\* the token of the send in progress, as a sequence of zero or one token
InFlight == IF sending = NoTok THEN << >> ELSE << sending >>

\* how many tokens of type t the sequence q holds
CountType(q, t) == Cardinality({ i \in 1..Len(q) : q[i].Type = t })

\* q holds a token of type ErrorTok
HasError(q) == \E i \in 1..Len(q) : q[i].Type = ErrorTok

\* the producer goroutine is over: its loop has ended and the channel is
\* closed, or it has panicked and the channel is closed
ProducerOver == pc \in { "closed", "crashed" }

\* s is an indent stack: not empty, 0 at the bottom, strictly increasing
IsIndentStack(s) ==
    /\ Len(s) >= 1
    /\ s[1] = 0
    /\ \A i \in 1..(Len(s) - 1) : s[i] < s[i + 1]

-----------------------------------------------------------------------------
(* C1 *)

\* C1: the tokens NextToken has returned, followed by the tokens buffered in
\* the channel, followed by the token of the send in progress, are exactly
\* the tokens passed to Emit and Errorf so far, in the same order: no token
\* is reordered, duplicated or dropped, in any interleaving.
C1_TokensInOrder == emitted = received \o tokens \o InFlight

\* the consumer has read a whole stream of three tokens or more, not all
\* the same, and got nil at its end
C1_Witness ==
    /\ result = NilTok
    /\ Len(received) >= 3
    /\ received[1] # received[2]
    /\ received = emitted

-----------------------------------------------------------------------------
(* C2 *)

\* C2: once NextToken has returned nil on a started engine, the channel is
\* closed and empty and the producer is over, so that a later NextToken call
\* does not block; every later call returns nil, and no token is emitted any
\* more.
C2_EndOfStreamIdempotent ==
    /\ [](result = NilTok =>
            /\ started /\ cpc = "ready"
            /\ closed /\ tokens = << >> /\ sending = NoTok
            /\ ProducerOver)
    /\ [][result = NilTok =>
            /\ result' = NilTok
            /\ emitted' = emitted
            /\ received' = received]_vars

\* nil was returned after a stream of tokens
C2_Witness == result = NilTok /\ Len(received) >= 2

-----------------------------------------------------------------------------
(* C3 *)

\* C3: a token of type ErrorTok, once passed to Errorf, is the last token of
\* the session: there is at most one, nothing (in particular no eofTok) is
\* emitted after it, and the consumer receives it last.
C3_ErrorIsLast ==
    /\ \A i \in 1..Len(emitted) : emitted[i].Type = ErrorTok => i = Len(emitted)
    /\ \A i \in 1..Len(received) : received[i].Type = ErrorTok => i = Len(emitted)
    /\ CountType(emitted, ErrorTok) <= 1

\* the error of the indentation measurement was delivered after other
\* tokens, and the stream has ended
C3_Witness ==
    /\ result = NilTok
    /\ Len(received) >= 2
    /\ Last(received).Type = ErrorTok
    /\ Last(received).Value[1] = "Inconsistent dedent. Expecting "

-----------------------------------------------------------------------------
(* C4 *)

\* C4: the scanner never panics: neither Next's panic nor measure's panic is
\* raised, whatever the source text.
C4_NoPanic == pc \notin { "panic", "crashed" }

-----------------------------------------------------------------------------
(* C5 *)

\* C5: when the token stream is closed, the last token emitted is an eofTok
\* or an ErrorTok.
C5_ClosedAfterFinalToken ==
    closed =>
        /\ emitted # << >>
        /\ Last(emitted).Type \in { eofTok, ErrorTok }

-----------------------------------------------------------------------------
(* C6 *)

\* C6: the channel never buffers more than 2 tokens; with 2 tokens buffered
\* the send of Emit / Errorf cannot complete; and NextToken on a started
\* engine cannot complete exactly when the buffer is empty and the channel
\* is not closed.
C6_BoundedBuffer ==
    /\ Len(tokens) <= 2
    /\ (sending # NoTok /\ Len(tokens) = 2) => ~ENABLED Send
    /\ (started /\ cpc = "ready") =>
           (~ENABLED NextToken <=> (tokens = << >> /\ ~closed))

\* the producer is suspended in a send with two tokens buffered
C6_Witness == sending # NoTok /\ Len(tokens) = 2 /\ ~ENABLED Send

-----------------------------------------------------------------------------
(* C7 *)

\* C7: while the producer is suspended in a send on a full buffer, every
\* step in which the consumer retrieves nothing leaves it suspended in that
\* send: it makes no progress, emits nothing, and the stream is not closed.
C7_ProducerStaysSuspended ==
    [][(sending # NoTok /\ Len(tokens) = ChanCap /\ received' = received) =>
          /\ sending' = sending
          /\ tokens' = tokens
          /\ pc' = pc
          /\ emitted' = emitted
          /\ << start, position, atEOF, State >>' = << start, position, atEOF, State >>
          /\ ~closed /\ ~closed'
          /\ pc' \notin { "closed", "crashed" }]_vars

\* the consumer never called NextToken, and the producer is suspended in its
\* third send
C7_Witness ==
    /\ sending # NoTok
    /\ Len(tokens) = ChanCap
    /\ received = << >>
    /\ result = NoTok

-----------------------------------------------------------------------------
(* C8 *)

\* C8: a session that emitted no error token ends with an eofTok, emitted
\* after one dedentTok for every entry of the indent stack above the base:
\* when the producer is over, the last token emitted is the eofTok, the
\* stream holds as many dedentTok as indentTok, and the stack is [0].
C8_BalancedAtEndOfInput ==
    (ProducerOver /\ ~HasError(emitted)) =>
        /\ emitted # << >>
        /\ Last(emitted).Type = eofTok
        /\ CountType(emitted, eofTok) = 1
        /\ CountType(emitted, dedentTok) = CountType(emitted, indentTok)
        /\ State = << 0 >>

\* what holds of the code: the same, of the sessions that end without a
\* panic
C8_BalancedUnlessPanic ==
    (pc = "closed" /\ ~HasError(emitted)) =>
        /\ emitted # << >>
        /\ Last(emitted).Type = eofTok
        /\ CountType(emitted, eofTok) = 1
        /\ CountType(emitted, dedentTok) = CountType(emitted, indentTok)
        /\ State = << 0 >>

-----------------------------------------------------------------------------
(* C9 *)

\* a state function has returned, and the producer stands before the next
\* one or at the end of its loop (in OuterState, possibly inside the loop,
\* which leaves the stack alone)
AfterStateFunction ==
    /\ started
    /\ sending = NoTok
    /\ \/ pc \in { "DoubleQuote", "SingleQuote", "Reference", "Directive",
                   "Comment", "Identifier", "exit", "closed" }
       \/ pc = "Newline" /\ (startState = "Outer" \/ position > 0)
       \/ pc = "Outer" /\ startState = "Newline"

\* C9 as claimed: after every state function the indent stack is non-empty,
\* has 0 at the bottom and is strictly increasing.
C9_StackAfterEveryStateFunction == AfterStateFunction => IsIndentStack(State)

\* C9 as amended: the slot Lex.State is either still empty (updateIndent has
\* not run yet: the stack is created as [0] by the first call) or a stack
\* that is non-empty, has 0 at the bottom and is strictly increasing; so is
\* the stack updateIndent is popping, whose base entry is never popped, also
\* on the inconsistent-dedent path.  An empty slot means that no token of
\* the indentation measurement was emitted.
C9_StackOnceCreated ==
    /\ State = NilState \/ IsIndentStack(State)
    /\ ui.at # "none" => IsIndentStack(ui.indents)
    /\ State = NilState =>
           /\ ui.at = "none"
           /\ CountType(emitted, indentTok) = 0
           /\ CountType(emitted, dedentTok) = 0
           /\ CountType(emitted, eofTok) = 0

\* the inconsistent-dedent path was taken: an entry was pushed, then popped
\* for a line of a smaller width that is above the base
C9_Witness ==
    /\ ui.at = "err"
    /\ ui.size > 0
    /\ State = << 0 >>
    /\ CountType(emitted, indentTok) = 1
    /\ CountType(emitted, dedentTok) = 1

-----------------------------------------------------------------------------
(* C10 *)

\* the bytes of the line that starts at offset p: up to the next line end
\* or the end of the source
RECURSIVE LineLen(_)
LineLen(p) ==
    IF p >= Len(source) \/ source[p + 1] = nl THEN 0 ELSE 1 + LineLen(p + 1)

\* NewlineState is about to read a blank line: a line of spaces and tabs
\* only, ended by a line end, or not empty and ended by the end of input
BlankLineAhead ==
    /\ Running("Newline")
    /\ \A i \in 1..LineLen(position) : source[position + i] \in { sp, tab }
    /\ \/ position + LineLen(position) < Len(source)
       \/ LineLen(position) > 0

\* C10: reading a blank line never starts the emission of an indentTok or a
\* dedentTok and never starts a push or a pop of the indent stack.
C10_BlankLineNoIndent ==
    [][BlankLineAhead =>
          /\ sending'.Type \notin { indentTok, dedentTok }
          /\ ui' = NoFrame
          /\ State' = State]_vars

\* what holds of the code: the same, of the blank lines that end with a
\* line end
C10_BlankLineBeforeNewline ==
    [][(BlankLineAhead /\ position + LineLen(position) < Len(source)) =>
          /\ sending'.Type \notin { indentTok, dedentTok }
          /\ ui' = NoFrame
          /\ State' = State]_vars

-----------------------------------------------------------------------------
(* The line NewlineState is about to read *)

\* the number of spaces and tabs from offset p of the source on
RECURSIVE WsLen(_)
WsLen(p) ==
    IF p < Len(source) /\ source[p + 1] \in { sp, tab }
    THEN 1 + WsLen(p + 1) ELSE 0

\* the leading white space of the line that starts at the read position
LeadingWs == SubSeq(source, position + 1, position + WsLen(position))

\* the byte that follows the leading white space, if any
AfterLeadingWs ==
    LET q == position + WsLen(position)
    IN  IF q < Len(source) THEN source[q + 1] ELSE "end"

\* the variables the scanner's goroutine writes
scannerVars == << start, position, atEOF, State, pc, sending, ui, emitted >>

\* a step of the scanner's goroutine, as opposed to one of the consumer
ScannerStep == scannerVars' # scannerVars

\* NewlineState is about to measure a line: its leading white space is not
\* followed by a line end
MeasuredLineAhead == Running("Newline") /\ AfterLeadingWs # nl

\* NewlineState is about to measure a line that is not blank
ContentLineAhead == MeasuredLineAhead /\ AfterLeadingWs # "end"

\* the indent stack as updateIndent sees it: [0] until it is created
Stack == IF State = NilState THEN << 0 >> ELSE State

Top == Last(Stack)

\* the entries of a stack
Entries(s) == { s[i] : i \in 1..Len(s) }

-----------------------------------------------------------------------------
(* C11 *)

\* the width of a run of spaces and tabs as the claim words it, read from
\* the left: a space adds one column, a tab moves to the next multiple of 4
\* strictly above the width so far
RECURSIVE Width(_)
Width(s) ==
    IF Len(s) = 0 THEN 0
    ELSE LET w == Width(SubSeq(s, 1, Len(s) - 1))
         IN  IF s[Len(s)] = sp THEN w + 1 ELSE 4 * ((w \div 4) + 1)

\* C11: the width measured for a line's leading white space counts 1 for a
\* space and goes to the next multiple of 4 strictly above for a tab; one
\* tab and two spaces followed by a tab both measure 4; and a token of the
\* indentation is started exactly if that width differs from the top of the
\* indent stack, so that no indent or dedent token comes between two lines
\* whose leading white space differs but measures the same.
C11_MeasureTabStops ==
    /\ measure(<< tab >>) = 4
    /\ measure(<< sp, sp, tab >>) = 4
    /\ \A s \in Leads(MaxLead) : measure(s) = Width(s)
    /\ [][(MeasuredLineAhead /\ ScannerStep) =>
             /\ ui'.at # "none" => ui'.size = Width(LeadingWs)
             /\ sending'.Type \in { indentTok, dedentTok }
                    <=> Width(LeadingWs) # Top
             /\ Width(LeadingWs) = Top => pc' = "Outer" /\ State' = Stack]_vars

\* a line indented by a tab was followed by a line indented by two spaces
\* and a tab: one indent token, and no other token of the indentation
C11_Witness ==
    /\ source = << tab, "a", nl, sp, sp, tab, "a" >>
    /\ pc = "Outer"
    /\ position = 6
    /\ State = << 0, 4 >>
    /\ emitted = << Token(indentTok, << tab >>), Token(identTok, << "a" >>) >>

-----------------------------------------------------------------------------
(* C12 *)

\* a sequence without its last element
Front(q) == SubSeq(q, 1, Len(q) - 1)

\* updateIndent is in its dedent loop, after the send of a dedentTok and
\* before the pop that follows it; Lex.State still holds the stack the
\* call began with
PopAhead == Running("updateIndent") /\ ui.at = "pop"

\* the message of the inconsistent-dedent error token
InconsistentDedent(expected, found) ==
    << "Inconsistent dedent. Expecting " >> \o Itoa(expected)
        \o << " but found " >> \o Itoa(found) \o << "." >>

\* C12 as claimed, for its example: with the stack [0, 4] and a line of
\* width 2, two dedent tokens come immediately before the error token.
C12_TwoDedentsBeforeError ==
    [][(PopAhead /\ ScannerStep /\ State = << 0, 4 >> /\ ui.size = 2
            /\ ui'.at = "err") =>
          /\ Len(emitted) >= 2
          /\ emitted[Len(emitted)].Type = dedentTok
          /\ emitted[Len(emitted) - 1].Type = dedentTok]_vars

\* C12 as amended: a line whose width is below the top of the stack and
\* equal to no entry starts a dedent token; the loop sends one dedent token
\* for each entry above the width and then, immediately after the last of
\* them, one error token "Inconsistent dedent...", after which the scan
\* stops without another token.  With the stack [0, 4] and a line of width
\* 2 that is one dedent token, then the error token.
C12_DedentsThenError ==
    /\ [][(MeasuredLineAhead /\ ScannerStep /\ Width(LeadingWs) < Top
               /\ Width(LeadingWs) \notin Entries(Stack)) =>
             /\ sending' = Token(dedentTok, LeadingWs)
             /\ ui'.at = "pop"
             /\ ui'.size = Width(LeadingWs)
             /\ ui'.indents = Stack]_vars
    /\ [][(PopAhead /\ ScannerStep /\ ui.size \notin Entries(State)) =>
             IF Last(Front(ui.indents)) > ui.size
             THEN /\ sending'.Type = dedentTok
                  /\ ui'.at = "pop"
                  /\ ui'.indents = Front(ui.indents)
             ELSE /\ ui'.at = "err"
                  /\ sending'.Type = ErrorTok
                  /\ sending'.Value[1] = "Inconsistent dedent. Expecting "
                  /\ Last(emitted).Type = dedentTok
                  /\ emitted' = Append(emitted, sending')]_vars
    /\ [][(Running("updateIndent") /\ ui.at = "err" /\ ScannerStep) =>
             /\ pc' = "exit"
             /\ sending' = NoTok
             /\ emitted' = emitted]_vars
    /\ [][(PopAhead /\ ScannerStep /\ State = << 0, 4 >> /\ ui.size = 2) =>
             /\ ui'.at = "err"
             /\ Len(emitted) >= 2
             /\ emitted[Len(emitted)].Type = dedentTok
             /\ emitted[Len(emitted) - 1].Type # dedentTok]_vars

\* a line of width 2 came with the stack [0, 4]: one dedent token, then
\* the error token
C12_Witness ==
    /\ ui.at = "err"
    /\ ui.size = 2
    /\ State = << 0 >>
    /\ sending = Token(ErrorTok, InconsistentDedent(0, 2))
    /\ Len(emitted) >= 3
    /\ emitted[Len(emitted) - 1] = Token(dedentTok, << sp, sp >>)
    /\ emitted[Len(emitted) - 2].Type # dedentTok

-----------------------------------------------------------------------------
(* C13, C14 *)

\* the state function of a quote delimiter
QuoteState(q) == IF q = dq THEN "DoubleQuote" ELSE "SingleQuote"

\* the number of bytes from offset p of the source up to the next byte that
\* is the delimiter q, a line end or a NUL, or up to the end of the source
RECURSIVE BodyLen(_, _)
BodyLen(p, q) ==
    IF p >= Len(source) \/ source[p + 1] \in { q, nl, NUL }
    THEN 0 ELSE 1 + BodyLen(p + 1, q)

\* the text after the opening delimiter q, which the scanner has just read
Body(q) == SubSeq(source, position + 1, position + BodyLen(position, q))

\* that text is closed by the delimiter q
Closed(q) ==
    LET e == position + BodyLen(position, q)
    IN  e < Len(source) /\ source[e + 1] = q

\* C13: a quoted literal that is closed by its opening delimiter before a
\* line end, a NUL or the end of input is emitted as exactly one quoteTok,
\* the same type for both delimiters, whose value is the text strictly
\* between the delimiters; the scanner then steps over the closing
\* delimiter and goes on in OuterState without another token.
C13_ClosedQuote ==
    /\ [][\A q \in { dq, sq } :
             (Running(QuoteState(q)) /\ Closed(q) /\ ScannerStep) =>
                 /\ sending' = Token(quoteTok, Body(q))
                 /\ emitted' = Append(emitted, sending')
                 /\ pc' = "quoteHelper"
                 /\ position' = position + BodyLen(position, q)]_vars
    /\ [][(Running("quoteHelper") /\ ScannerStep) =>
             /\ position' = position + 1
             /\ source[position'] \in { dq, sq }
             /\ sending' = NoTok
             /\ emitted' = emitted
             /\ pc' = "Outer"]_vars

\* a literal in single quotes that holds a double quote was scanned
C13_Witness ==
    /\ source = << sq, dq, sq >>
    /\ pc = "Outer"
    /\ position = 3
    /\ emitted = << Token(quoteTok, << dq >>) >>

\* C14: a quoted literal that is not closed before a line end, a NUL or the
\* end of input is emitted as one ErrorTok whose value is "Runaway quote: "
\* and the text read after the opening delimiter; no quoteTok is made for
\* it, the scan ends without another token, and the consumer has received
\* every earlier token when it receives that error.
C14_RunawayQuote ==
    /\ [][\A q \in { dq, sq } :
             (Running(QuoteState(q)) /\ ~Closed(q) /\ ScannerStep) =>
                 /\ sending' = Token(ErrorTok, << "Runaway quote: " >> \o Body(q))
                 /\ emitted' = Append(emitted, sending')
                 /\ pc' = "exit"]_vars
    /\ [](\A i \in 1..Len(emitted) :
             (emitted[i].Type = ErrorTok
                  /\ emitted[i].Value[1] = "Runaway quote: ") =>
                 i = Len(emitted))
    /\ [](\A i \in 1..Len(received) :
             (received[i].Type = ErrorTok
                  /\ received[i].Value[1] = "Runaway quote: ") =>
                 received = emitted)

\* an identifier and then the error of an open literal were received
C14_Witness ==
    /\ source = << "a", dq, "a" >>
    /\ received = << Token(identTok, << "a" >>),
                     Token(ErrorTok, << "Runaway quote: ", "a" >>) >>
    /\ pc = "closed"

-----------------------------------------------------------------------------
(* C15 *)

\* the number of dots from offset p of the source on
RECURSIVE DotRun(_)
DotRun(p) ==
    IF p < Len(source) /\ source[p + 1] = "." THEN 1 + DotRun(p + 1) ELSE 0

\* C15: ReferenceState begins after OuterState has read the first dot of a
\* run.  It emits a referenceTok of value "..." if that maximal run has
\* exactly three dots and goes on in OuterState; for every other length it
\* emits an ErrorTok "Malformed reference ellipsis: ..." and the scan ends.
C15_ReferenceIffThreeDots ==
    [][(Running("Reference") /\ ScannerStep) =>
          IF 1 + DotRun(position) = 3
          THEN /\ sending' = Token(referenceTok, << ".", ".", "." >>)
               /\ pc' = "Outer"
          ELSE /\ sending'.Type = ErrorTok
               /\ sending'.Value[1] = "Malformed reference ellipsis: "
               /\ pc' = "exit"]_vars

\* what holds of the code: the same, of the runs that OuterState meets with
\* no text pending
C15_ReferenceNothingPending ==
    [][(Running("Reference") /\ ScannerStep /\ start = position - 1) =>
          IF 1 + DotRun(position) = 3
          THEN /\ sending' = Token(referenceTok, << ".", ".", "." >>)
               /\ pc' = "Outer"
          ELSE /\ sending' = Token(ErrorTok,
                                   << "Malformed reference ellipsis: " >>
                                       \o [i \in 1..(1 + DotRun(position)) |-> "."])
               /\ pc' = "exit"]_vars

-----------------------------------------------------------------------------
(* C16 *)

\* updateIndent is after the send of its indentTok and before its push
PushAhead == Running("updateIndent") /\ ui.at = "push"

\* C16: for every line that is not blank, whatever its content (a comment
\* too): if the width of its leading white space equals the top of the
\* indent stack, NewlineState emits no token, leaves the stack as it is and
\* goes on in OuterState; if the width is strictly greater, it emits one
\* indentTok whose value is that leading white space, then pushes the width
\* and goes on in OuterState without another token.
C16_SameOrIndent ==
    /\ [][(ContentLineAhead /\ ScannerStep /\ Width(LeadingWs) = Top) =>
             /\ sending' = NoTok
             /\ emitted' = emitted
             /\ State' = Stack
             /\ ui' = NoFrame
             /\ pc' = "Outer"]_vars
    /\ [][(ContentLineAhead /\ ScannerStep /\ Width(LeadingWs) > Top) =>
             /\ sending' = Token(indentTok, LeadingWs)
             /\ emitted' = Append(emitted, sending')
             /\ State' = Stack
             /\ ui'.at = "push"
             /\ ui'.size = Width(LeadingWs)
             /\ ui'.indents = Stack]_vars
    /\ [][(PushAhead /\ ScannerStep) =>
             /\ State' = Append(State, ui.size)
             /\ ui.indents = State
             /\ sending' = NoTok
             /\ emitted' = emitted
             /\ ui' = NoFrame
             /\ pc' = "Outer"]_vars

\* an indented line that holds only a comment gave an indent token, and the
\* line after it, of the same width, gave none
C16_Witness ==
    /\ source = << sp, sp, "#", nl, sp, sp, "#" >>
    /\ State = << 0, 2 >>
    /\ pc = "Outer"
    /\ sending = NoTok
    /\ emitted = << Token(indentTok, << sp, sp >>),
                    Token(commentTok, << "#" >>),
                    Token(commentTok, << "#" >>) >>

-----------------------------------------------------------------------------
(* C17 *)

\* the entries of a stack that are at most w, in their order
UpTo(s, w) == SelectSeq(s, LAMBDA e : e <= w)

\* C17: a dedent token is started for a measured line exactly if its width
\* w is below the top of the stack.  Every turn of the dedent loop pops one
\* entry, which is greater than w, and sends one dedent token for it (the
\* first one before the first pop); so the dedent tokens emitted and the
\* entries popped are equal in number, and the difference of the indent and
\* dedent tokens emitted is the depth of the stack in hand.  The loop ends
\* when the top is at most w, with exactly the entries greater than w
\* popped; if the top equals w the scanner goes on in OuterState without
\* another token, otherwise it emits the ErrorTok "Inconsistent dedent.
\* Expecting <top> but found <w>.".
C17_DedentPerPoppedEntry ==
    /\ [][(MeasuredLineAhead /\ ScannerStep) =>
             (sending'.Type = dedentTok <=> Width(LeadingWs) < Top)]_vars
    /\ [][(MeasuredLineAhead /\ ScannerStep /\ Width(LeadingWs) < Top) =>
             /\ sending' = Token(dedentTok, LeadingWs)
             /\ emitted' = Append(emitted, sending')
             /\ ui'.at = "pop"
             /\ ui'.size = Width(LeadingWs)
             /\ ui'.indents = Stack]_vars
    /\ [](ui.at = "pop" =>
             /\ Last(ui.indents) > ui.size
             /\ ui.indents = SubSeq(State, 1, Len(ui.indents))
             /\ CountType(emitted, indentTok) - CountType(emitted, dedentTok)
                    = Len(ui.indents) - 2)
    /\ [](ui.at = "none" /\ State # NilState =>
             CountType(emitted, indentTok) - CountType(emitted, dedentTok)
                 = Len(State) - 1)
    /\ [][(PopAhead /\ ScannerStep /\ Len(ui.indents) >= 2) =>
             LET rest == Front(ui.indents)
             IN  IF Last(rest) > ui.size
                 THEN /\ sending'.Type = dedentTok
                      /\ emitted' = Append(emitted, sending')
                      /\ ui'.at = "pop"
                      /\ ui'.indents = rest
                      /\ State' = State
                 ELSE /\ State' = rest
                      /\ rest = UpTo(State, ui.size)
                      /\ IF Last(rest) = ui.size
                         THEN /\ ui' = NoFrame
                              /\ ui.caller = "Newline" =>
                                     /\ pc' = "Outer"
                                     /\ sending' = NoTok
                                     /\ emitted' = emitted
                         ELSE /\ ui'.at = "err"
                              /\ sending' = Token(ErrorTok,
                                     InconsistentDedent(Last(rest), ui.size))
                              /\ emitted' = Append(emitted, sending')]_vars

\* a line of width 1 came with the stack [0, 2, 4]: two entries popped, two
\* dedent tokens, and the error that expects 0 and found 1
C17_Witness ==
    /\ ui.at = "err"
    /\ ui.size = 1
    /\ State = << 0 >>
    /\ sending = Token(ErrorTok, InconsistentDedent(0, 1))
    /\ CountType(emitted, indentTok) = 2
    /\ CountType(emitted, dedentTok) = 2

-----------------------------------------------------------------------------
(* C18 *)

\* the byte OuterState is about to read, if any
NextByte == IF position < Len(source) THEN source[position + 1] ELSE "end"

\* C18: when OuterState reads one of the single-character tokens, it emits
\* one token of that character's type whose value is that character alone,
\* whatever was scanned before it.
C18_SingleCharValue ==
    [][(Running("Outer") /\ ScannerStep /\ NextByte \in SingleChars) =>
          /\ sending' = Token(SingleCharTok(NextByte), << NextByte >>)
          /\ emitted' = Append(emitted, sending')
          /\ pc' = "Outer"]_vars

\* what holds of the code: the token's type and place, and a value that
\* ends with the character; the value is the character alone when no text
\* is pending
C18_SingleCharType ==
    [][(Running("Outer") /\ ScannerStep /\ NextByte \in SingleChars) =>
          /\ sending'.Type = SingleCharTok(NextByte)
          /\ Last(sending'.Value) = NextByte
          /\ start = position => sending'.Value = << NextByte >>
          /\ emitted' = Append(emitted, sending')
          /\ pc' = "Outer"]_vars

-----------------------------------------------------------------------------
(* C19 *)

\* the runes an identifier begins with, and goes on with
IdentStart == { "a", "A", "_", ":" }
IdentPart  == { "a", "A", "_", "1" }

\* C19: the value of every identifier token emitted begins with a letter,
\* '_' or ':' and goes on with letters, digits and '_' only.
C19_IdentifierValue ==
    \A i \in 1..Len(emitted) :
        emitted[i].Type = identTok =>
            /\ Len(emitted[i].Value) >= 1
            /\ emitted[i].Value[1] \in IdentStart
            /\ \A j \in 2..Len(emitted[i].Value) :
                   emitted[i].Value[j] \in IdentPart

\* what holds of the code: a value of that form, after at most one quote
\* delimiter
C19_IdentifierAfterPending ==
    \A i \in 1..Len(emitted) :
        emitted[i].Type = identTok =>
            LET v == emitted[i].Value
                k == IF v[1] \in { dq, sq } THEN 2 ELSE 1
            IN  /\ Len(v) >= k
                /\ v[k] \in IdentStart
                /\ \A j \in (k + 1)..Len(v) : v[j] \in IdentPart
                /\ k = 2 => i > 1 /\ emitted[i - 1].Type = quoteTok

-----------------------------------------------------------------------------
(* C20 *)

\* the number of upper-case letters from offset p of the source on
RECURSIVE UpperRun(_)
UpperRun(p) ==
    IF p < Len(source) /\ source[p + 1] \in uppercase
    THEN 1 + UpperRun(p + 1) ELSE 0

\* C20: when OuterState reads '#', the scanner emits a directiveTok whose
\* value is '#' and the maximal run of upper-case letters after it if the
\* character after '#' is an upper-case letter, and otherwise a commentTok
\* whose value goes from '#' up to, not including, the next line end or the
\* end of input.
C20_DirectiveOrComment ==
    /\ [][(Running("Outer") /\ ScannerStep /\ NextByte = "#") =>
             /\ sending' = NoTok
             /\ position' = position + 1
             /\ pc' = IF UpperRun(position + 1) > 0
                      THEN "Directive" ELSE "Comment"]_vars
    /\ [][(Running("Directive") /\ ScannerStep) =>
             /\ sending' = Token(directiveTok,
                    << "#" >> \o SubSeq(source, position + 1,
                                        position + UpperRun(position)))
             /\ pc' = "Outer"]_vars
    /\ [][(Running("Comment") /\ ScannerStep) =>
             /\ sending' = Token(commentTok,
                    << "#" >> \o SubSeq(source, position + 1,
                                        position + LineLen(position)))
             /\ pc' = "Outer"]_vars


\* what holds of the code: the value is all the pending text, '#' included,
\* then the run of upper-case letters or the text up to the next line end,
\* NUL or end of input
C20_ValueWithPendingText ==
    /\ [][(Running("Directive") /\ ScannerStep) =>
             /\ sending' = Token(directiveTok,
                    SubSeq(source, start + 1, position + UpperRun(position)))
             /\ source[position] = "#"
             /\ pc' = "Outer"]_vars
    /\ [][(Running("Comment") /\ ScannerStep) =>
             /\ sending' = Token(commentTok,
                    SubSeq(source, start + 1,
                           position + BodyLen(position, nl)))
             /\ source[position] = "#"
             /\ pc' = "Outer"]_vars

-----------------------------------------------------------------------------
(* C21 *)

\* the characters OuterState has a case for
OuterKnown ==
    { sp, tab, nl, dq, sq, ".", "#", "_", ":" } \cup SingleChars
        \cup { r \in Alphabet : IsLetter(r) }

\* the token of the error of OuterState's default case
IsUnexpectedCharacter(tok) ==
    /\ tok.Type = ErrorTok
    /\ tok.Value[1] = "Unexpected unicode character ("
    /\ tok.Value[3] = ") in outer context."

\* C21: when OuterState reads a character it has no case for, it emits
\* exactly one ErrorTok "Unexpected unicode character ... in outer context"
\* and the scan ends: no token follows it, and no eofTok.
C21_UnexpectedCharacter ==
    /\ [][(Running("Outer") /\ ScannerStep
               /\ NextByte \notin OuterKnown \cup { "end" }) =>
             /\ IsUnexpectedCharacter(sending')
             /\ emitted' = Append(emitted, sending')
             /\ pc' = "exit"]_vars
    /\ [](\A i \in 1..Len(emitted) :
             IsUnexpectedCharacter(emitted[i]) => i = Len(emitted))

\* what holds of the code: the same, of every such character but the NUL
C21_UnexpectedUnlessNUL ==
    /\ [][(Running("Outer") /\ ScannerStep
               /\ NextByte \notin OuterKnown \cup { "end", NUL }) =>
             /\ sending' = Token(ErrorTok,
                    << "Unexpected unicode character (", SharpU(NextByte),
                       ") in outer context." >>)
             /\ emitted' = Append(emitted, sending')
             /\ pc' = "exit"]_vars
    /\ [](\A i \in 1..Len(emitted) :
             IsUnexpectedCharacter(emitted[i]) =>
                 /\ i = Len(emitted)
                 /\ CountType(emitted, eofTok) = 0)

-----------------------------------------------------------------------------
(* C22 *)

\* C22: whatever cursor operations were called, and in whatever order, the
\* cursor is within 0 <= start <= position <= len(source), and one more
\* call of Backup leaves the position at or above start.
C22_CursorInBounds ==
    /\ 0 <= start
    /\ start <= position
    /\ position <= Len(source)
    /\ Backup(Cur).position >= start
    /\ Backup(Backup(Cur)).position >= start

\* Backup was called with nothing pending, past the start of the source
C22_Witness ==
    /\ pc = "Backup"
    /\ start > 0
    /\ position = start
    /\ atEOF = FALSE

-----------------------------------------------------------------------------
(* C23 *)

\* C23: in every state in which the driver can call Next without a panic,
\* Backup right after Next gives back the position and the atEOF flag of before
\* the Next, at the end of input (where Next returns the sentinel) and
\* elsewhere; so a call of Peek leaves start, position and atEOF as they
\* were.
C23_BackupUndoesNext ==
    /\ []((Driving /\ ~LexNext(Cur).panic) =>
             /\ Backup(LexNext(Cur)).position = position
             /\ Backup(LexNext(Cur)).atEOF = atEOF
             /\ Backup(LexNext(Cur)).start = start
             /\ Peek(Cur) = Cur)
    /\ [][(Driving /\ pc' = "Peek") =>
             /\ start' = start
             /\ position' = position
             /\ atEOF' = atEOF]_vars

\* Peek was called at the end of a source with text pending: Next returned
\* the sentinel, and the flag it set is cleared again
C23_Witness ==
    /\ pc = "Peek"
    /\ position = Len(source)
    /\ start < position
    /\ atEOF = FALSE

-----------------------------------------------------------------------------
(* C24 *)

\* the code point that begins at offset p of the source, and the number of
\* bytes of its encoding
CodePointAt(p) ==
    IF source[p + 1] = leadByte /\ p + 2 <= Len(source)
           /\ source[p + 2] = contByte
    THEN << eAcute, 2 >>
    ELSE IF source[p + 1] \in { leadByte, contByte }
         THEN << RuneError, 1 >>
         ELSE << source[p + 1], 1 >>

\* C24: in every state in which the driver can call Next without a panic,
\* Next returns the end-of-input sentinel exactly if the position is at the end
\* of the source; then it sets atEOF and leaves the position and the
\* pending text alone; otherwise it returns the code point at the position
\* and moves the position on by the width of its encoding.
C24_SentinelIffAtEnd ==
    (Driving /\ ~LexNext(Cur).panic) =>
        /\ NextRune(Cur) = EOFRune <=> position = Len(source)
        /\ IF position = Len(source)
           THEN /\ LexNext(Cur).atEOF
                /\ LexNext(Cur).position = position
                /\ Current(LexNext(Cur)) = Current(Cur)
           ELSE /\ NextRune(Cur) = CodePointAt(position)[1]
                /\ LexNext(Cur).position = position + CodePointAt(position)[2]
                /\ LexNext(Cur).atEOF = atEOF

\* what holds of the code: the sentinel at the end of the source, the code
\* point elsewhere, which is the sentinel's rune for a NUL byte
C24_SentinelAtEnd ==
    (Driving /\ ~LexNext(Cur).panic) =>
        /\ position = Len(source) => NextRune(Cur) = EOFRune
        /\ (NextRune(Cur) = EOFRune /\ position < Len(source)) =>
               source[position + 1] = NUL
        /\ IF position = Len(source)
           THEN /\ LexNext(Cur).atEOF
                /\ LexNext(Cur).position = position
                /\ Current(LexNext(Cur)) = Current(Cur)
           ELSE /\ NextRune(Cur) = CodePointAt(position)[1]
                /\ LexNext(Cur).position = position + CodePointAt(position)[2]
                /\ LexNext(Cur).atEOF = atEOF

-----------------------------------------------------------------------------
(* C25 *)

\* the producer has started the send of one more token
Emitting == emitted' # emitted

\* tok is a view of the source that ends at the position of the cursor and
\* begins at or after offset s0
IsSliceFrom(tok, s0, p) ==
    \E s \in s0..p : tok.Value = SubSeq(source, s + 1, p)

\* the first words of the messages of the scanner's error tokens
Messages ==
    { "Runaway quote: ", "Malformed reference ellipsis: ",
      "Inconsistent dedent. Expecting ", "Unexpected unicode character (" }

\* C25 as claimed: the value of every token emitted is the slice
\* source[start:position] of the source, for the offsets at its emission.
C25_ValueIsSourceSlice ==
    [][Emitting =>
          /\ emitted' = Append(emitted, sending')
          /\ IsSliceFrom(sending', start, position')]_vars

\* C25 as amended: the value of every token emitted by Emit, which is every
\* token but the error tokens, is the slice source[start:position] for the
\* offsets at its emission, and Emit leaves start at that position; the
\* value of an error token is the message Errorf formats, which begins
\* with words that are no part of the source.
C25_EmitValueIsSourceSlice ==
    [][Emitting =>
          /\ emitted' = Append(emitted, sending')
          /\ IF sending'.Type = ErrorTok
             THEN sending'.Value[1] \in Messages
             ELSE /\ IsSliceFrom(sending', start, position')
                  /\ start' = position']_vars

\* a token whose value is a slice from the middle of the source was
\* received
C25_Witness ==
    /\ source = << dq, dq, sq, "a", sq >>
    /\ Len(received) = 2
    /\ received[2] = Token(quoteTok, SubSeq(source, 4, 4))

-----------------------------------------------------------------------------
(* C26 *)

\* a call of NextToken has returned
ConsumerStep == received' # received \/ result' # result

\* C26: a call of NextToken, wherever the producer stands, changes the
\* token buffer and what the consumer holds, and nothing else: the cursor,
\* the indent stack and the producer's place in its code are as before.
\* A step of the producer in turn leaves alone what the consumer holds,
\* and changes the buffer only by the send of its token.
C26_NextTokenFrame ==
    /\ [][ConsumerStep =>
             /\ start' = start
             /\ position' = position
             /\ atEOF' = atEOF
             /\ State' = State
             /\ ui' = ui
             /\ pc' = pc
             /\ sending' = sending
             /\ emitted' = emitted
             /\ source' = source
             /\ \/ tokens' = tokens
                \/ tokens # << >> /\ tokens' = Tail(tokens)]_vars
    /\ [][ScannerStep =>
             /\ result' = result
             /\ received' = received
             /\ cpc' = cpc
             /\ tokens' \in { tokens, Append(tokens, sending) }]_vars

\* the consumer received a token while the producer was inside an
\* identifier, with text pending and an indent stack in place
C26_Witness ==
    /\ pc = "Identifier"
    /\ start < position
    /\ State = << 0, 1 >>
    /\ received = << Token(indentTok, << sp >>) >>
    /\ result = Token(indentTok, << sp >>)

-----------------------------------------------------------------------------
(* C27 *)

\* the driver calls Errorf: it starts a send that is not the send of Emit
ErrorfCalled == Driving /\ Emitting /\ pc' # "Emit"

\* C27: a call of Errorf sends exactly one token, of type ErrorTok and
\* with the formatted message as value, and leaves start, position and
\* atEOF as they were; the state function returns nil with it, so that
\* nothing is emitted after it, the stream is closed once the token is
\* sent, and the consumer finds the end of the stream right after the
\* error token.
C27_ErrorfEndsTheStream ==
    /\ [][ErrorfCalled =>
             /\ sending' = Token(ErrorTok, << "unexpected token" >>)
             /\ emitted' = Append(emitted, sending')
             /\ start' = start
             /\ position' = position
             /\ atEOF' = atEOF
             /\ pc' = "exit"]_vars
    /\ [][pc = "exit" =>
             /\ pc' \in { "exit", "closed" }
             /\ pc' = "closed" => sending = NoTok /\ closed'
             /\ emitted' = emitted
             /\ start' = start
             /\ position' = position
             /\ atEOF' = atEOF]_vars
    /\ [](HasError(emitted) =>
             /\ Last(emitted).Type = ErrorTok
             /\ CountType(emitted, ErrorTok) = 1
             /\ pc \in { "exit", "closed" })
    /\ [][(HasError(received) /\ ConsumerStep) => result' = NilTok]_vars

\* Errorf was called with text pending: the consumer received the error
\* token and then the end of the stream, and the cursor is where it was
C27_Witness ==
    /\ pc = "closed"
    /\ start < position
    /\ received = << Token(ErrorTok, << "unexpected token" >>) >>
    /\ result = NilTok

-----------------------------------------------------------------------------
(* C28 *)

\* C28: while the scanner is in OuterState, before each character it
\* reads there, no text is pending: start = position.  (Inside OuterState
\* every turn of the loop ends with Ignore or Emit, so this is the claim
\* about the entries into OuterState.)
C28_NothingPendingInOuter == pc = "Outer" => start = position

\* what holds of the code: at most the closing delimiter of a quoted
\* literal is pending
C28_AtMostDelimiterPending ==
    pc = "Outer" =>
        \/ start = position
        \/ /\ start = position - 1
           /\ source[position] \in { dq, sq }
           /\ emitted # << >>
           /\ Last(emitted).Type = quoteTok

-----------------------------------------------------------------------------
(* C29 *)

\* the session is over: the consumer has found the end of the stream, or
\* the process has died of a panic in the producer's goroutine
SessionOver == (pc = "closed" /\ result = NilTok) \/ pc = "crashed"

\* C29: the tokens the consumer has received when the session is over are
\* the same in every interleaving.  The producer reads the source and its
\* own variables only, so what it emits does not depend on the consumer;
\* in the interleavings in which the consumer is fast the consumer has
\* received all of it.  So the claim is that in every interleaving the
\* consumer has received all that was emitted when the session is over.
C29_SameStreamInEveryInterleaving == SessionOver => received = emitted

\* what holds of the code: the same, of the sessions that end without a
\* panic
C29_SameStreamUnlessPanic ==
    (pc = "closed" /\ result = NilTok) => received = emitted

\* two ends of the sessions over one source that the claim says cannot
\* both be met: the consumer was fast, and the consumer was slow
C29_FastConsumer ==
    /\ source = << dq, dq >>
    /\ pc = "crashed"
    /\ received = << Token(quoteTok, << >>) >>

C29_SlowConsumer ==
    /\ source = << dq, dq >>
    /\ pc = "crashed"
    /\ received = << >>
    /\ Len(tokens) = 1

-----------------------------------------------------------------------------
(* C30 *)

\* the indent tokens emitted so far, less the dedent tokens
OpenIndents == CountType(emitted, indentTok) - CountType(emitted, dedentTok)

\* C30 as claimed: after every state function the indent tokens emitted
\* less the dedent tokens emitted are the depth of the indent stack
\* less 1.
C30_BalanceAfterEveryStateFunction ==
    AfterStateFunction => OpenIndents = Len(State) - 1

\* C30 as amended: after every state function, in runs that end with an
\* error token too, the indent tokens emitted less the dedent tokens
\* emitted are either 0, while the indent stack is not created yet, or
\* the depth of the indent stack less 1; and at no moment are more dedent
\* tokens emitted than indent tokens.
C30_BalanceOnceCreated ==
    /\ AfterStateFunction =>
           /\ ui = NoFrame
           /\ IF State = NilState
              THEN OpenIndents = 0
              ELSE OpenIndents = Len(State) - 1
    /\ OpenIndents >= 0

\* a run that ended with an error token inside an indented block
C30_Witness ==
    /\ pc = "closed"
    /\ HasError(emitted)
    /\ State = << 0, 1 >>
    /\ emitted = << Token(indentTok, << sp >>), Last(emitted) >>

-----------------------------------------------------------------------------
(* C31 *)

\* the bytes of the values of the tokens of q that are no error tokens
RECURSIVE ValueBytes(_)
ValueBytes(q) ==
    IF q = << >> THEN 0
    ELSE ValueBytes(Front(q))
             + (IF Last(q).Type = ErrorTok THEN 0 ELSE Len(Last(q).Value))

\* C31: in a session start never decreases.  The value of every token that
\* is no error token is a range of the source that begins at or after the
\* start of before and ends at the position, where start then stands; so
\* the ranges of successive tokens follow one another in the source without
\* a byte in common, and all their bytes together are no more than the
\* bytes before start.
C31_StartNeverDecreases ==
    /\ [][start' >= start]_vars
    /\ [][(Emitting /\ sending'.Type # ErrorTok) =>
             /\ IsSliceFrom(sending', start, position')
             /\ start' = position'
             /\ ValueBytes(emitted') <= start']_vars
    /\ [](ValueBytes(emitted) <= start /\ start <= position)

\* three tokens were emitted whose ranges follow one another and cover the
\* source
C31_Witness ==
    /\ source = << "a", "=", "A" >>
    /\ emitted = << Token(identTok, << "a" >>), Token(equalsTok, << "=" >>),
                    Token(identTok, << "A" >>) >>
    /\ start = 3
    /\ ValueBytes(emitted) = 3

-----------------------------------------------------------------------------
(* C32 *)

\* C32: NextToken returns a token or the end of the stream only on an
\* engine that was started.  Called on an engine that New built and Start
\* never ran on, it blocks for good: it has returned nothing and never
\* will, Start is not called any more, no buffer exists and no producer
\* runs or emits.
C32_NeverReturnsIfNotStarted ==
    /\ [](result # NoTok => started)
    /\ [](cpc = "blocked" =>
             /\ ~started
             /\ result = NoTok
             /\ received = << >>
             /\ tokens = << >>
             /\ emitted = << >>
             /\ pc = "new"
             /\ ~closed)
    /\ [][cpc = "blocked" => UNCHANGED vars]_vars
    /\ [][(~started /\ ~started' /\ cpc = "ready") =>
             /\ cpc' = "blocked"
             /\ result' = NoTok
             /\ received' = received]_vars

\* NextToken was called on an engine with a source to scan that was never
\* started
C32_Witness ==
    /\ cpc = "blocked"
    /\ Len(source) = MaxLen
    /\ ~started

=============================================================================
